---- MODULE Spec2Model ----
(***************************************************************************)
(* A model of sudoku.c: the threaded validator checkPuzzle with its check  *)
(* routines checkRow, checkCol and checkSubgrid, the single-candidate      *)
(* filler solveMissingNumber, and main, which validates and then fills.    *)
(*                                                                         *)
(* Three specifications share the definitions below.                       *)
(*   Spec      main run thread by thread: the orchestrator creates the     *)
(*             check threads one by one, every created thread runs at any  *)
(*             moment, the join loop waits for thread i before it reads    *)
(*             its slots.                                                  *)
(*   FairSpec  the same steps on fewer puzzles, with weak fairness of the  *)
(*             steps of checkPuzzle, for termination.                      *)
(*   SpecFn    the two entry points as functions of the grid, applied to a *)
(*             larger family of grids: one call of checkPuzzle, or up to   *)
(*             MaxCalls calls of solveMissingNumber.                       *)
(***************************************************************************)
EXTENDS Integers, FiniteSets, Sequences, TLC

VARIABLES psize, grid, input, pc, i, row, col, threadIndex, params, threads,
          listInvalid, listComplete, complete, valid, iter

vars == <<psize, grid, input, pc, i, row, col, threadIndex, params, threads,
          listInvalid, listComplete, complete, valid, iter>>

(***************************************************************************)
(* Bounds of the model and constants of the program.                       *)
(***************************************************************************)
\* largest puzzle size read from the file
MaxN == 4
\* cells of a base grid that the input may overwrite (SpecFn)
MaxChanges == 2
\* calls of solveMissingNumber made on one grid (SpecFn)
MaxCalls == 2
\* passes of solveMissingNumber that main runs (line 448)
Passes == 5

(***************************************************************************)
(* Grids.  grid[r][c] for r, c in 1..psize; 0 is an empty cell.            *)
(***************************************************************************)
Cells(n) == (1..n) \X (1..n)

\* (int)sqrt(psize), lines 231 and 277
sqrtPsize(n) == CHOOSE s \in 0..n : s * s <= n /\ (s + 1) * (s + 1) > n

\* flag without the test sqrtPsize > 1
flagNoMin(n) == sqrtPsize(n) * sqrtPsize(n) = n

\* lines 280-281
flag(n) == (sqrtPsize(n) * sqrtPsize(n) = n) /\ (sqrtPsize(n) > 1)

\* line 284
totalThreads(n) == n * 2 + (IF flag(n) THEN n ELSE 0)


(***************************************************************************)
(* The rules of the puzzle, stated on the grid alone: a puzzle of size n   *)
(* has subgrids when n is a perfect square greater than 1, of side         *)
(* Side(n).                                                                *)
(***************************************************************************)
HasSubgrids(n) == \E s \in 2..n : s * s = n

Side(n) == IF HasSubgrids(n) THEN CHOOSE s \in 2..n : s * s = n ELSE 1

(***************************************************************************)
(* The puzzles read by readSudokuPuzzle.  The file may hold any integers;  *)
(* the model reads well-formed puzzles (cells in 0..psize) taken from a    *)
(* few base grids with some cells overwritten.                             *)
(***************************************************************************)
\* a filled grid with no repeated value in a row or a column
Cyclic(n, k) == [r \in 1..n |-> [c \in 1..n |-> ((r + c - 2 + k) % n) + 1]]

\* a filled grid with no repeated value in a row, a column or a subgrid
Solved(n, k) ==
    IF HasSubgrids(n)
    THEN LET s == Side(n)
         IN  [r \in 1..n |-> [c \in 1..n |->
                 (((r - 1) * s + ((r - 1) \div s) + (c - 1) + k) % n) + 1]]
    ELSE Cyclic(n, k)

Empty(n) == [r \in 1..n |-> [c \in 1..n |-> 0]]

Ones(n) == [r \in 1..n |-> [c \in 1..n |-> 1]]

\* an empty grid but for the first subgrid, filled as in Solved(n, 0) except
\* for its first cell
Sparse(n) ==
    [r \in 1..n |-> [c \in 1..n |->
        IF r <= Side(n) /\ c <= Side(n) /\ ~(r = 1 /\ c = 1)
        THEN Solved(n, 0)[r][c] ELSE 0]]

\* a grid without repeated values whose first cell has one candidate left
\* by its row, a candidate that the first subgrid already holds
Clash(n) ==
    [r \in 1..n |-> [c \in 1..n |->
        IF r = 1 /\ c >= 2 THEN c ELSE IF r = 2 /\ c = 2 THEN 1 ELSE 0]]

\* a 4x4 grid on which every one of six passes still fills a cell; the
\* empty grid for the other sizes
Slow(n) ==
    IF n = 4
    THEN << <<0, 4, 1, 4>>, <<0, 1, 0, 1>>, <<0, 0, 2, 0>>, <<0, 0, 0, 0>> >>
    ELSE Empty(n)

Bases(n) ==
    {Solved(n, k) : k \in 0..(n - 1)}
        \cup {Cyclic(n, 0), Empty(n), Ones(n), Sparse(n), Clash(n)}

\* every grid of G, and every grid of G with one cell overwritten
Overwrite(G, n) ==
    G \cup {[g EXCEPT ![rc[1]][rc[2]] = v] : g \in G, rc \in Cells(n), v \in 0..n}

RECURSIVE Changed(_, _, _)
Changed(G, n, k) == IF k = 0 THEN G ELSE Changed(Overwrite(G, n), n, k - 1)

\* the larger grids get one change less for every ten cells, to keep the
\* family enumerable
ChangeBudget(n) ==
    IF MaxChanges > (n * n) \div 10 THEN MaxChanges - ((n * n) \div 10) ELSE 0

\* the puzzles of SpecFn
FnGrids(n) == Changed(Bases(n), n, ChangeBudget(n))

\* the puzzles of Spec: a base grid, its last cell kept, emptied or set to 1
MainBases(n) == {Solved(n, 0), Cyclic(n, 0), Empty(n), Ones(n), Slow(n)}

MainGrids(n) == MainBases(n) \cup {[g EXCEPT ![n][n] = v] : g \in MainBases(n), v \in 0..1}

(***************************************************************************)
(* solveMissingNumber, lines 60-103.                                       *)
(***************************************************************************)
\* lines 70-83: the numbers still possible for the cell (row, col) of g
possible(g, n, r, c) ==
    {num \in 1..n :
        /\ \A k \in 1..n : ~(g[r][k] > 0 /\ g[r][k] = num)
        /\ \A k \in 1..n : ~(g[k][c] > 0 /\ g[k][c] = num)}

\* SolveCell with the numbers of the row alone marked as not possible
SolveCellRowOnly(g, n, r, c) ==
    IF g[r][c] = 0
    THEN LET p == {num \in 1..n : \A k \in 1..n : g[r][k] # num}
         IN  IF Cardinality(p) = 1
             THEN [g EXCEPT ![r][c] = CHOOSE missingNum \in p : TRUE]
             ELSE g
    ELSE g

\* SolveCell without the test grid[row][col] == 0
SolveCellAnyCell(g, n, r, c) ==
    LET p == possible(g, n, r, c)
    IN  IF Cardinality(p) = 1
        THEN [g EXCEPT ![r][c] = CHOOSE missingNum \in p : TRUE]
        ELSE g

\* SolveCell writing the least candidate whenever there is one
SolveCellLeast(g, n, r, c) ==
    IF g[r][c] = 0
    THEN LET p == possible(g, n, r, c)
         IN  IF Cardinality(p) >= 1
             THEN [g EXCEPT ![r][c] = CHOOSE missingNum \in p : \A q \in p : missingNum <= q]
             ELSE g
    ELSE g

\* lines 69-100: the visit of one cell
SolveCell(g, n, r, c) ==
    IF g[r][c] = 0
    THEN LET p == possible(g, n, r, c)
         IN  IF Cardinality(p) = 1
             THEN [g EXCEPT ![r][c] = CHOOSE missingNum \in p : TRUE]
             ELSE g
    ELSE g

\* lines 65-67: the cells k, k+1, ..., stop-1 in row-major order, counted from 0
RECURSIVE SolveScan(_, _, _, _)
SolveScan(g, n, k, stop) ==
    IF k >= stop THEN g
    ELSE SolveScan(SolveCell(g, n, (k \div n) + 1, (k % n) + 1), n, k + 1, stop)

solveMissingNumber(g, n) == SolveScan(g, n, 0, n * n)

(***************************************************************************)
(* The check routines.  Each returns what it writes: invalid = TRUE when   *)
(* it sets *(data->invalid) = true, complete = FALSE when it sets          *)
(* *(data->complete) = false.                                              *)
(***************************************************************************)
\* ScanUnit passing over a value <= 0 without marking the unit incomplete
RECURSIVE ScanUnitSkipZero(_, _, _, _)
ScanUnitSkipZero(vals, k, seen, rowComplete) ==
    IF k > Len(vals) THEN [invalid |-> FALSE, complete |-> rowComplete]
    ELSE LET val == vals[k]
         IN  IF val <= 0 THEN ScanUnitSkipZero(vals, k + 1, seen, rowComplete)
             ELSE IF val \in seen
                  THEN [invalid |-> TRUE, complete |-> rowComplete]
                  ELSE ScanUnitSkipZero(vals, k + 1, seen \cup {val}, rowComplete)

\* the loop of checkRow (188-208) and checkCol (135-154) over the values
\* vals of the unit, from position k on
RECURSIVE ScanUnit(_, _, _, _)
ScanUnit(vals, k, seen, rowComplete) ==
    IF k > Len(vals) THEN [invalid |-> FALSE, complete |-> rowComplete]
    ELSE LET val == vals[k]
         IN  IF val <= 0 THEN ScanUnit(vals, k + 1, seen, FALSE)
             ELSE IF val \in seen
                  THEN [invalid |-> TRUE, complete |-> rowComplete]
                  ELSE ScanUnit(vals, k + 1, seen \cup {val}, rowComplete)

checkRow(g, p) == ScanUnit([c \in 1..p.psize |-> g[p.row][c]], 1, {}, TRUE)

\* checkCol reading grid[data->row][data->column] at every step
checkColSameCell(g, p) == ScanUnit([r \in 1..p.psize |-> g[p.row][p.column]], 1, {}, TRUE)

checkCol(g, p) == ScanUnit([r \in 1..p.psize |-> g[r][p.column]], 1, {}, TRUE)

\* the loops of checkSubgrid (238-253): a repeated value ends the inner
\* loop only, and the value 0 is looked up in seen like any other
RECURSIVE SubgridScan(_, _, _, _, _, _, _)
SubgridScan(g, p, s, a, b, seen, inv) ==
    IF a > s THEN inv
    ELSE IF b > s THEN SubgridScan(g, p, s, a + 1, 1, seen, inv)
    ELSE LET val == g[p.row + a - 1][p.column + b - 1]
         IN  IF val \in seen
             THEN SubgridScan(g, p, s, a + 1, 1, seen, TRUE)
             ELSE SubgridScan(g, p, s, a, b + 1, seen \cup {val}, inv)

\* checkSubgrid scanning the last row of the subgrid only
checkSubgridLastRow(g, p) ==
    [invalid |-> SubgridScan(g, p, sqrtPsize(p.psize), sqrtPsize(p.psize), 1, {}, FALSE),
     complete |-> TRUE]

checkSubgrid(g, p) ==
    [invalid |-> SubgridScan(g, p, sqrtPsize(p.psize), 1, 1, {}, FALSE),
     complete |-> TRUE]

\* the start routine given to pthread_create
RunRoutine(fn, g, p) ==
    CASE fn = "checkRow" -> checkRow(g, p)
      [] fn = "checkCol" -> checkCol(g, p)
      [] fn = "checkSubgrid" -> checkSubgrid(g, p)

\* a check routine that empties the cell its unit starts at
TaskGridClear(g, p) == [g EXCEPT ![p.row][p.column] = 0]

\* the grid a check routine leaves: the routines only read data->grid
TaskGrid(g, p) == g


(***************************************************************************)
(* checkPuzzle as a function of the grid: the result slots of the          *)
(* totalThreads check routines, aggregated as the join loop does.          *)
(***************************************************************************)
\* lines 298-343: the routine and the parameters of thread k
Plan(n, k) ==
    IF k < 2 * n
    THEN IF k % 2 = 0
         THEN [fn |-> "checkRow",
               p |-> [row |-> (k \div 2) + 1, column |-> 1, psize |-> n,
                      complete |-> k, invalid |-> k]]
         ELSE [fn |-> "checkCol",
               p |-> [row |-> 1, column |-> (k \div 2) + 1, psize |-> n,
                      complete |-> k, invalid |-> k]]
    ELSE LET s == sqrtPsize(n)
             j == k - 2 * n
         IN  [fn |-> "checkSubgrid",
              p |-> [row |-> (j \div s) * s + 1, column |-> (j % s) * s + 1,
                     psize |-> n, complete |-> k, invalid |-> k]]

\* lines 276-357
checkPuzzle(g, n) ==
    LET T == totalThreads(n)
        res == [k \in 0..(T - 1) |-> RunRoutine(Plan(n, k).fn, g, Plan(n, k).p)]
    IN  [complete |-> \A k \in 0..(T - 1) : res[k].complete,
         valid |-> \A k \in 0..(T - 1) : ~res[k].invalid]

(***************************************************************************)
(* Spec: main, thread by thread.                                           *)
(***************************************************************************)
NoParams == [row |-> 0, column |-> 0, psize |-> 0, complete |-> 0, invalid |-> 0]

NoThread == [fn |-> "none", st |-> "none"]

\* the state common to both specifications: checkPuzzle has been entered
\* and has filled its result lists (lines 291-294); main's flags are false
\* (lines 431-432)
Start ==
    /\ input = grid
    /\ i = 1 /\ row = 1 /\ col = 1
    /\ threadIndex = 0
    /\ params = [k \in 0..(totalThreads(psize) - 1) |-> NoParams]
    /\ threads = [k \in 0..(totalThreads(psize) - 1) |-> NoThread]
    /\ listInvalid = [k \in 0..(totalThreads(psize) - 1) |-> FALSE]
    /\ listComplete = [k \in 0..(totalThreads(psize) - 1) |-> TRUE]
    /\ complete = FALSE /\ valid = FALSE
    /\ iter = 0

\* the size read from the file is not checked (lines 360-378, 424-434): it
\* may be 0, and then the loop of line 298 and the test of line 326 create
\* no thread
Init ==
    /\ psize \in 0..MaxN
    /\ grid \in MainGrids(psize)
    /\ pc = IF psize >= 1 THEN "create_row" ELSE "flags"
    /\ Start

\* lines 300-310
CreateRow ==
    /\ pc = "create_row"
    /\ params' = [params EXCEPT ![threadIndex] =
                     [row |-> i, column |-> 1, psize |-> psize,
                      complete |-> threadIndex, invalid |-> threadIndex]]
    /\ threads' = [threads EXCEPT ![threadIndex] = [fn |-> "checkRow", st |-> "running"]]
    /\ threadIndex' = threadIndex + 1
    /\ pc' = "create_col"
    /\ UNCHANGED <<psize, grid, input, i, row, col, listInvalid, listComplete,
                   complete, valid, iter>>

\* CreateCol handing the column thread the slots of the row thread before it
CreateColSharedSlot ==
    /\ pc = "create_col"
    /\ params' = [params EXCEPT ![threadIndex] =
                     [row |-> 1, column |-> i, psize |-> psize,
                      complete |-> threadIndex - 1, invalid |-> threadIndex - 1]]
    /\ threads' = [threads EXCEPT ![threadIndex] = [fn |-> "checkCol", st |-> "running"]]
    /\ threadIndex' = threadIndex + 1
    /\ i' = i + 1
    /\ pc' = IF i + 1 <= psize THEN "create_row"
             ELSE IF flag(psize) THEN "create_sub" ELSE "flags"
    /\ UNCHANGED <<psize, grid, input, row, col, listInvalid, listComplete,
                   complete, valid, iter>>

\* lines 313-324, and the loop tests of lines 298 and 326
CreateCol ==
    /\ pc = "create_col"
    /\ params' = [params EXCEPT ![threadIndex] =
                     [row |-> 1, column |-> i, psize |-> psize,
                      complete |-> threadIndex, invalid |-> threadIndex]]
    /\ threads' = [threads EXCEPT ![threadIndex] = [fn |-> "checkCol", st |-> "running"]]
    /\ threadIndex' = threadIndex + 1
    /\ i' = i + 1
    /\ pc' = IF i + 1 <= psize THEN "create_row"
             ELSE IF flag(psize) THEN "create_sub" ELSE "flags"
    /\ UNCHANGED <<psize, grid, input, row, col, listInvalid, listComplete,
                   complete, valid, iter>>

\* lines 328-342
CreateSubgrid ==
    /\ pc = "create_sub"
    /\ params' = [params EXCEPT ![threadIndex] =
                     [row |-> row, column |-> col, psize |-> psize,
                      complete |-> threadIndex, invalid |-> threadIndex]]
    /\ threads' = [threads EXCEPT ![threadIndex] =
                      [fn |-> "checkSubgrid", st |-> "running"]]
    /\ threadIndex' = threadIndex + 1
    /\ LET subGridSize == sqrtPsize(psize)
       IN  IF col + subGridSize <= psize
           THEN /\ col' = col + subGridSize
                /\ UNCHANGED <<row, pc>>
           ELSE /\ col' = 1
                /\ row' = row + subGridSize
                /\ pc' = IF row + subGridSize <= psize THEN "create_sub" ELSE "flags"
    /\ UNCHANGED <<psize, grid, input, i, listInvalid, listComplete,
                   complete, valid, iter>>

\* a created thread runs its routine to pthread_exit
TaskRun(k) ==
    /\ threads[k].st = "running"
    /\ LET p == params[k]
           res == RunRoutine(threads[k].fn, grid, p)
       IN  /\ listInvalid' = IF res.invalid
                             THEN [listInvalid EXCEPT ![p.invalid] = TRUE]
                             ELSE listInvalid
           /\ listComplete' = IF res.complete
                              THEN listComplete
                              ELSE [listComplete EXCEPT ![p.complete] = FALSE]
           /\ grid' = TaskGrid(grid, p)
    /\ threads' = [threads EXCEPT ![k].st = "done"]
    /\ UNCHANGED <<psize, input, pc, i, row, col, threadIndex, params,
                   complete, valid, iter>>

\* lines 345-346
SetFlags ==
    /\ pc = "flags"
    /\ complete' = TRUE
    /\ valid' = TRUE
    /\ i' = 0
    /\ pc' = "join"
    /\ UNCHANGED <<psize, grid, input, row, col, threadIndex, params, threads,
                   listInvalid, listComplete, iter>>

\* a join that does not wait
JoinNoWait(k) == TRUE

\* a join that waits for a thread already joined
JoinAgain(k) == threads[k].st = "joined"

\* a join that returns as soon as any thread has terminated
JoinReadyAny(k) == \E j \in DOMAIN threads : threads[j].st = "done"

\* a join that returns for any created thread, terminated or not
JoinCreated(k) == threads[k].st # "none"

\* pthread_join(threads[k]) returns once thread k has terminated
JoinReady(k) == threads[k].st = "done"

\* lines 347-356, one iteration
Join ==
    /\ pc = "join"
    /\ i < totalThreads(psize)
    /\ JoinReady(i)
    /\ valid' = IF listInvalid[params[i].invalid] = TRUE THEN FALSE ELSE valid
    /\ complete' = IF listComplete[params[i].complete] = FALSE THEN FALSE ELSE complete
    /\ threads' = [threads EXCEPT ![i].st = "joined"]
    /\ i' = i + 1
    /\ UNCHANGED <<psize, grid, input, pc, row, col, threadIndex, params,
                   listInvalid, listComplete, iter>>

\* checkPuzzle returning from anywhere in the join loop
ReturnEarly ==
    /\ pc = "join"
    /\ pc' = "report"
    /\ UNCHANGED <<psize, grid, input, i, row, col, threadIndex, params, threads,
                   listInvalid, listComplete, complete, valid, iter>>

\* line 347, the loop ends; line 357, checkPuzzle returns to main
Return ==
    /\ pc = "join"
    /\ i >= totalThreads(psize)
    /\ pc' = "report"
    /\ UNCHANGED <<psize, grid, input, i, row, col, threadIndex, params, threads,
                   listInvalid, listComplete, complete, valid, iter>>

\* lines 436-448
Report ==
    /\ pc = "report"
    /\ pc' = IF complete THEN "done" ELSE "solve"
    /\ iter' = 0
    /\ UNCHANGED <<psize, grid, input, i, row, col, threadIndex, params, threads,
                   listInvalid, listComplete, complete, valid>>

\* lines 448-451, one iteration
SolvePass ==
    /\ pc = "solve"
    /\ iter < Passes
    /\ grid' = solveMissingNumber(grid, psize)
    /\ iter' = iter + 1
    /\ UNCHANGED <<psize, input, pc, i, row, col, threadIndex, params, threads,
                   listInvalid, listComplete, complete, valid>>

\* line 448, the loop ends; lines 454-456
Finish ==
    /\ pc = "solve"
    /\ iter >= Passes
    /\ pc' = "done"
    /\ UNCHANGED <<psize, grid, input, i, row, col, threadIndex, params, threads,
                   listInvalid, listComplete, complete, valid, iter>>

Next ==
    \/ CreateRow
    \/ CreateCol
    \/ CreateSubgrid
    \/ \E k \in 0..(totalThreads(psize) - 1) : TaskRun(k)
    \/ SetFlags
    \/ Join
    \/ Return
    \/ Report
    \/ SolvePass
    \/ Finish

Spec == Init /\ [][Next]_vars

\* main on a filled and on an empty puzzle of every size
InitFair ==
    /\ psize \in 0..MaxN
    /\ grid \in {Solved(psize, 0), Empty(psize)}
    /\ pc = IF psize >= 1 THEN "create_row" ELSE "flags"
    /\ Start

\* the steps taken inside checkPuzzle, by the orchestrator and by the check
\* threads
CheckPuzzleStep ==
    \/ CreateRow
    \/ CreateCol
    \/ CreateSubgrid
    \/ \E k \in 0..(totalThreads(psize) - 1) : TaskRun(k)
    \/ SetFlags
    \/ Join
    \/ Return

\* main under a fair scheduler: as long as the orchestrator or a check
\* thread can take a step of checkPuzzle, one of them does
FairSpec == InitFair /\ [][Next]_vars /\ WF_vars(CheckPuzzleStep)

(***************************************************************************)
(* SpecFn: the entry points applied to a grid.                             *)
(***************************************************************************)
InitFn ==
    /\ psize \in 1..MaxN
    /\ grid \in FnGrids(psize)
    /\ pc = "input"
    /\ Start

\* checkPuzzle(psize, grid, &complete, &valid)
CallCheckPuzzle ==
    /\ pc = "input"
    /\ complete' = checkPuzzle(grid, psize).complete
    /\ valid' = checkPuzzle(grid, psize).valid
    /\ pc' = "checked"
    /\ UNCHANGED <<psize, grid, input, i, row, col, threadIndex, params, threads,
                   listInvalid, listComplete, iter>>

\* solveMissingNumber(grid, psize)
CallSolve ==
    /\ pc \in {"input", "solving"}
    /\ iter < MaxCalls
    /\ grid' = solveMissingNumber(grid, psize)
    /\ iter' = iter + 1
    /\ pc' = "solving"
    /\ UNCHANGED <<psize, input, i, row, col, threadIndex, params, threads,
                   listInvalid, listComplete, complete, valid>>

NextFn == CallCheckPuzzle \/ CallSolve

SpecFn == InitFn /\ [][NextFn]_vars


(***************************************************************************)
(* The vocabulary of the claims: the units of a puzzle and what the rules  *)
(* say about them, stated on the grid alone.                               *)
(***************************************************************************)
RowUnit(n, r) == {<<r, c>> : c \in 1..n}

ColUnit(n, c) == {<<r, c>> : r \in 1..n}

SubUnit(n, a, b) ==
    {<<(a - 1) * Side(n) + x, (b - 1) * Side(n) + y>> : x \in 1..Side(n), y \in 1..Side(n)}

RowUnits(n) == {RowUnit(n, r) : r \in 1..n}

ColUnits(n) == {ColUnit(n, c) : c \in 1..n}

SubUnits(n) ==
    IF HasSubgrids(n)
    THEN {SubUnit(n, a, b) : a \in 1..Side(n), b \in 1..Side(n)}
    ELSE {}

Units(n) == RowUnits(n) \cup ColUnits(n) \cup SubUnits(n)

At(g, x) == g[x[1]][x[2]]

\* the unit U holds the same nonzero value in two cells
UnitDup(g, U) == \E x \in U, y \in U : x # y /\ At(g, x) # 0 /\ At(g, x) = At(g, y)

RowDup(g, n) == \E U \in RowUnits(n) : UnitDup(g, U)

ColDup(g, n) == \E U \in ColUnits(n) : UnitDup(g, U)

SubDup(g, n) == \E U \in SubUnits(n) : UnitDup(g, U)

NoDuplicate(g, n) == \A U \in Units(n) : ~UnitDup(g, U)

HasZero(g, n) == \E x \in Cells(n) : At(g, x) = 0

\* checkPuzzle has just returned (SpecFn: "checked", Spec: "report")
Checked == pc \in {"checked", "report"}

\* a step that is one pass of solveMissingNumber
IsPass == iter' = iter + 1

\* the digits in the row and the column of cell x
PeerDigits(g, n, x) == {At(g, y) : y \in RowUnit(n, x[1]) \cup ColUnit(n, x[2])} \ {0}

\* the grid a pass over g has made when it comes to cell x
GridAtVisit(g, n, x) == SolveScan(g, n, 0, (x[1] - 1) * n + (x[2] - 1))

\* a pass that has made g and comes to the cell number k (row-major, from 0)
\* ends with the grid after: every cell from k on that is empty, with
\* exactly n - 1 digits in its row and column, when the pass visits it
\* holds the missing digit in after
RECURSIVE DeterminedFrom(_, _, _, _)
DeterminedFrom(g, n, k, after) ==
    IF k >= n * n THEN TRUE
    ELSE LET x == <<(k \div n) + 1, (k % n) + 1>>
         IN  /\ (At(g, x) = 0 /\ Cardinality(PeerDigits(g, n, x)) = n - 1)
                => {At(after, x)} = (1..n) \ PeerDigits(g, n, x)
             /\ DeterminedFrom(SolveCell(g, n, x[1], x[2]), n, k + 1, after)

(***************************************************************************)
(* C1.  A grid with a zero cell is reported incomplete: whenever           *)
(* checkPuzzle returns for a grid that has an empty cell, complete is      *)
(* false.  The code contradicts it: a row or column scan that meets a      *)
(* repeated value stops before it reaches a later zero.                    *)
(***************************************************************************)
C1_ZeroMeansIncomplete == (Checked /\ HasZero(grid, psize)) => complete = FALSE

(***************************************************************************)
(* C2.  checkPuzzle returns valid = true exactly when no row, column or    *)
(* subgrid holds the same nonzero value twice; empty cells never make a    *)
(* grid invalid.  The code contradicts it: checkSubgrid counts two empty   *)
(* cells of a subgrid as a repeated value.                                 *)
(***************************************************************************)
C2_ValidIffNoDuplicate == Checked => (valid = NoDuplicate(grid, psize))

(***************************************************************************)
(* C3.  A fully filled grid of size 1, 4, 9 or 16 without a repeated value *)
(* in any row, column or subgrid is reported complete and valid.           *)
(***************************************************************************)
C3_SolvedGridAccepted ==
    (/\ Checked
     /\ psize \in {1, 4, 9, 16}
     /\ ~HasZero(grid, psize)
     /\ NoDuplicate(grid, psize))
    => (complete = TRUE /\ valid = TRUE)

C3_Witness ==
    /\ pc = "checked" /\ psize = 4
    /\ ~HasZero(grid, psize) /\ NoDuplicate(grid, psize)
    /\ complete = TRUE /\ valid = TRUE

(***************************************************************************)
(* C4.  A fully filled grid with a repeated value in some row, column or   *)
(* subgrid is reported invalid.                                            *)
(***************************************************************************)
C4_DuplicateRejected ==
    (Checked /\ ~HasZero(grid, psize) /\ ~NoDuplicate(grid, psize)) => valid = FALSE

\* a filled grid whose only repeated values are inside subgrids
C4_Witness ==
    /\ pc = "checked" /\ ~HasZero(grid, psize)
    /\ SubDup(grid, psize) /\ ~RowDup(grid, psize) /\ ~ColDup(grid, psize)
    /\ valid = FALSE

(***************************************************************************)
(* C5.  The pair (complete, valid) that checkPuzzle returns is the same in *)
(* every interleaving of the check threads with each other and with the    *)
(* create and join loops: it is the pair the grid alone determines, and a  *)
(* repeated value in a row always gives valid = false.                     *)
(***************************************************************************)
C5_ScheduleIndependent ==
    (pc = "report") =>
        /\ complete = checkPuzzle(input, psize).complete
        /\ valid = checkPuzzle(input, psize).valid
        /\ (RowDup(input, psize) => valid = FALSE)

\* a 4x4 grid with a repeated value in a row has been judged, the row's
\* thread having reported it
C5_Witness ==
    /\ pc = "report" /\ psize = 4
    /\ RowDup(input, psize)
    /\ \E k \in DOMAIN threads : threads[k].fn = "checkRow" /\ listInvalid[k] = TRUE
    /\ valid = FALSE


(***************************************************************************)
(* C6.  As claimed: an empty cell whose row and column hold exactly        *)
(* psize - 1 of the digits when a pass starts holds the missing digit when *)
(* the pass ends.  The pass works in place, so a cell filled earlier in    *)
(* the same pass can take the last candidate away.                         *)
(***************************************************************************)
C6_DeterminedAtPassStart ==
    [][IsPass =>
        \A x \in Cells(psize) :
            (At(grid, x) = 0 /\ Cardinality(PeerDigits(grid, psize, x)) = psize - 1)
            => {At(grid', x)} = (1..psize) \ PeerDigits(grid, psize, x)]_vars

(***************************************************************************)
(* C6, amended.  An empty cell whose row and column hold exactly psize - 1 *)
(* of the digits at the moment the pass visits it (the cells filled        *)
(* earlier in the pass included) holds the missing digit when the pass     *)
(* ends.                                                                   *)
(***************************************************************************)
C6_DeterminedWhenVisited == [][IsPass => DeterminedFrom(grid, psize, 0, grid')]_vars

\* after the first pass: a cell that became determined during the pass,
\* by a cell filled before it, holds its digit
C6_Witness ==
    /\ iter = 1 /\ psize >= 3
    /\ \E x \in Cells(psize) :
          LET g == GridAtVisit(input, psize, x)
          IN  /\ At(input, x) = 0
              /\ Cardinality(PeerDigits(input, psize, x)) < psize - 1
              /\ Cardinality(PeerDigits(g, psize, x)) = psize - 1
              /\ {At(grid, x)} = (1..psize) \ PeerDigits(g, psize, x)

(***************************************************************************)
(* C7.  checkPuzzle and its check threads leave the grid as they found it: *)
(* from the call to the return, in every interleaving, the grid is the     *)
(* grid that was read.                                                     *)
(***************************************************************************)
C7_GridUnchanged ==
    (pc \in {"create_row", "create_col", "create_sub", "flags", "join", "report"})
    => grid = input

\* checkPuzzle has returned, every thread has run and has been joined
C7_Witness ==
    /\ pc = "report" /\ psize = 4
    /\ \A k \in DOMAIN threads : threads[k].st = "joined"
    /\ HasZero(grid, psize) /\ grid = input

(***************************************************************************)
(* C8.  When psize is not a perfect square greater than 1, no thread runs  *)
(* checkSubgrid, exactly 2 * psize threads have been created once the      *)
(* creation loops are over, and valid = false is returned only for a grid  *)
(* with a repeated value in a row or a column.                             *)
(***************************************************************************)
C8_RowsAndColumnsOnly ==
    ~HasSubgrids(psize) =>
        /\ \A k \in DOMAIN threads : threads[k].fn # "checkSubgrid"
        /\ pc # "create_sub"
        /\ (pc \in {"flags", "join", "report", "solve", "done"}) =>
              /\ threadIndex = 2 * psize
              /\ Cardinality({k \in DOMAIN threads : threads[k].st # "none"}) = 2 * psize
        /\ (pc = "report" /\ valid = FALSE) =>
              (RowDup(input, psize) \/ ColDup(input, psize))

\* a 3x3 grid has been judged invalid by its 6 threads
C8_Witness ==
    /\ pc = "report" /\ psize = 3
    /\ threadIndex = 6
    /\ valid = FALSE

(***************************************************************************)
(* C9.  No step changes a cell that holds a number: solveMissingNumber     *)
(* writes empty cells only, so any number of passes over a grid without a  *)
(* zero cell leaves it as it was.                                          *)
(***************************************************************************)
C9_FilledCellsKept ==
    [][\A x \in Cells(psize) : At(grid, x) # 0 => At(grid', x) = At(grid, x)]_vars

\* passes have filled a cell of a grid and kept every number it had
C9_Witness ==
    /\ pc = "solving" /\ iter >= 1
    /\ \E x \in Cells(psize) : At(input, x) = 0 /\ At(grid, x) # 0
    /\ \E x \in Cells(psize) : At(input, x) # 0
    /\ \A x \in Cells(psize) : At(input, x) # 0 => At(grid, x) = At(input, x)

(***************************************************************************)
(* C10.  As the header of the file says: when exactly one cell of a row, a *)
(* column or a subgrid of a grid without repeated values is empty, a pass  *)
(* of solveMissingNumber fills it with the number missing from that unit.  *)
(* The code contradicts it: it never looks at the subgrid, and it fills no *)
(* cell whose row and column leave two candidates or none.                 *)
(***************************************************************************)
C10_SingleGapFilled ==
    [][(IsPass /\ NoDuplicate(grid, psize)) =>
        \A U \in Units(psize) : \A x \in U :
            ({y \in U : At(grid, y) = 0} = {x})
            => {At(grid', x)} = (1..psize) \ {At(grid, y) : y \in U}]_vars

(***************************************************************************)
(* C11.  A size psize <= 0 makes checkPuzzle fail fast: no check thread is *)
(* created and no pair (complete, valid) is returned for the grid.  The    *)
(* code contradicts the second half: it has no test of psize, creates no   *)
(* thread and returns complete = true, valid = true.                       *)
(***************************************************************************)
C11_FailFast ==
    (psize <= 0) =>
        /\ \A k \in DOMAIN threads : threads[k].st = "none"
        /\ pc \notin {"report", "solve", "done"}


(***************************************************************************)
(* The join loop: a step of it that reads the result slots of thread i,    *)
(* and the threads that have terminated.                                   *)
(***************************************************************************)
\* a step of the join loop: the slots of thread i are read in the state
\* the step starts from
IsRead == pc = "join" /\ i' = i + 1

Terminated(k) == threads[k].st \in {"done", "joined"}

Created == {k \in DOMAIN threads : threads[k].st # "none"}

(***************************************************************************)
(* C12.  As claimed: every read of a result slot by the join loop happens  *)
(* after every one of the totalThreads check threads has terminated.  The  *)
(* loop reads the slots of thread i right after joining thread i, while    *)
(* the threads after it may still run.                                     *)
(***************************************************************************)
C12_ReadAfterAllTerminated ==
    [][IsRead => \A k \in DOMAIN threads : Terminated(k)]_vars

(***************************************************************************)
(* C12, amended.  Every read of the slots of thread i happens after the    *)
(* threads 0..i have terminated, and checkPuzzle returns only after all    *)
(* totalThreads threads have terminated and have been joined.              *)
(***************************************************************************)
C12_ReadAfterJoinedPrefix ==
    /\ [][IsRead => \A k \in 0..i : Terminated(k)]_vars
    /\ [](pc = "report" => \A k \in DOMAIN threads : threads[k].st = "joined")

\* the slots of thread 0 have been read while another thread still runs
C12_Witness ==
    /\ pc = "join" /\ i >= 1
    /\ \A k \in 0..(i - 1) : threads[k].st = "joined"
    /\ \E k \in DOMAIN threads : threads[k].st = "running"

(***************************************************************************)
(* C13.  The created threads hold pairwise distinct slot indices in        *)
(* 0..totalThreads-1, thread k holding the pair listInvalid[k],            *)
(* listComplete[k]; a step of a check thread writes no slot but the pair   *)
(* it was given and never writes complete or valid.  So no slot is written *)
(* by two threads.                                                         *)
(***************************************************************************)
C13_OwnSlotOnly ==
    /\ [](\A k \in Created :
            /\ params[k].invalid = k /\ params[k].complete = k
            /\ params[k].invalid \in DOMAIN listInvalid
            /\ params[k].complete \in DOMAIN listComplete
            /\ \A j \in Created : j # k =>
                  /\ params[j].invalid # params[k].invalid
                  /\ params[j].complete # params[k].complete)
    /\ [][\A k \in DOMAIN threads :
            (threads[k].st = "running" /\ threads'[k].st = "done") =>
                /\ \A j \in DOMAIN listInvalid :
                      j # params[k].invalid => listInvalid'[j] = listInvalid[j]
                /\ \A j \in DOMAIN listComplete :
                      j # params[k].complete => listComplete'[j] = listComplete[j]
                /\ complete' = complete /\ valid' = valid]_vars

\* two threads have written, each its own slot, and the flags of the caller
\* are as line 345-346 set them
C13_Witness ==
    /\ pc = "join" /\ i = 0 /\ complete = TRUE /\ valid = TRUE
    /\ \E j \in DOMAIN threads, k \in DOMAIN threads :
          /\ j # k
          /\ threads[j].st = "done" /\ threads[k].st = "done"
          /\ listInvalid[j] = TRUE /\ listComplete[j] = TRUE
          /\ listComplete[k] = FALSE /\ listInvalid[k] = FALSE

(***************************************************************************)
(* C14.  The join loop reads a slot only when the thread that owns it has  *)
(* terminated: at every read of the slots of thread i, no thread that was  *)
(* given one of these slots is still running, whatever the threads with a  *)
(* larger index do.                                                        *)
(***************************************************************************)
C14_NoReadWriteRace ==
    [][IsRead =>
        \A k \in Created :
            (params[k].invalid = params[i].invalid
                \/ params[k].complete = params[i].complete)
            => threads[k].st = "done"]_vars

\* a slot that its thread has written has been read, and a thread with a
\* larger index has not terminated yet
C14_Witness ==
    /\ pc = "join" /\ i >= 1
    /\ listInvalid[i - 1] = TRUE /\ valid = FALSE
    /\ threads[i - 1].st = "joined"
    /\ \E k \in DOMAIN threads : k >= i /\ threads[k].st = "running"


(***************************************************************************)
(* C15.  The positive verdict is sound: when checkPuzzle returns           *)
(* complete = true and valid = true, the grid has no zero cell and no row, *)
(* column or subgrid with a repeated value.                                *)
(***************************************************************************)
C15_PositiveVerdictSound ==
    (Checked /\ complete = TRUE /\ valid = TRUE)
    => (~HasZero(grid, psize) /\ NoDuplicate(grid, psize))

\* a 3x3 grid, which has no subgrids, has been judged complete and valid
C15_Witness ==
    /\ pc = "checked" /\ psize = 3
    /\ complete = TRUE /\ valid = TRUE
    /\ ~HasZero(grid, psize) /\ ~RowDup(grid, psize) /\ ~ColDup(grid, psize)

(***************************************************************************)
(* C16.  The five passes that main runs on an incomplete puzzle reach a    *)
(* fixed point: when main is done after its passes, one more pass of       *)
(* solveMissingNumber would change no cell.  The code contradicts it: a    *)
(* pass can fill one cell more in each of more than five passes.           *)
(***************************************************************************)
C16_FivePassesFixedPoint ==
    (pc = "done" /\ iter = Passes) => solveMissingNumber(grid, psize) = grid

(***************************************************************************)
(* C17.  A pass writes a cell only if, when the pass visits it, the cell   *)
(* is empty and exactly one value of 1..psize is absent from its row and   *)
(* column, and it writes that value; every other cell is left as it is.    *)
(* Hence rows and columns without a repeated value stay so, over any       *)
(* number of passes.                                                       *)
(***************************************************************************)
\* a pass that has made g and comes to the cell number k (row-major, from
\* 0) ends with the grid after: from k on, a cell holds in after the one
\* value its row and column leave it, if it is empty with one such value
\* when visited, and what it held before otherwise
RECURSIVE WrittenFrom(_, _, _, _)
WrittenFrom(g, n, k, after) ==
    IF k >= n * n THEN TRUE
    ELSE LET x == <<(k \div n) + 1, (k % n) + 1>>
             cand == (1..n) \ PeerDigits(g, n, x)
         IN  /\ IF At(g, x) = 0 /\ Cardinality(cand) = 1
                THEN {At(after, x)} = cand
                ELSE At(after, x) = At(g, x)
             /\ WrittenFrom([g EXCEPT ![x[1]][x[2]] = At(after, x)], n, k + 1, after)

C17_OnlySingleCandidates ==
    /\ [][IsPass => WrittenFrom(grid, psize, 0, grid')]_vars
    /\ []((~RowDup(input, psize) /\ ~ColDup(input, psize))
            => (~RowDup(grid, psize) /\ ~ColDup(grid, psize)))

\* two passes over a grid without a repeated value in a row or a column
\* have filled a cell and have left empty a cell with several candidates
C17_Witness ==
    /\ pc = "solving" /\ iter = 2
    /\ ~RowDup(input, psize) /\ ~ColDup(input, psize)
    /\ \E x \in Cells(psize) : At(input, x) = 0 /\ At(grid, x) # 0
    /\ \E y \in Cells(psize) :
          /\ At(grid, y) = 0
          /\ Cardinality((1..psize) \ PeerDigits(grid, psize, y)) >= 2

(***************************************************************************)
(* C18.  As the comment of solveMissingNumber says, every number placed is *)
(* valid by the rules of the puzzle: a pass over a grid of perfect-square  *)
(* size greater than 1 without a repeated value in any row, column or      *)
(* subgrid leaves a grid without one.  The code contradicts it: the        *)
(* candidates come from the row and the column alone, so the number placed *)
(* may already stand in the subgrid of the cell.                           *)
(***************************************************************************)
C18_PlacedNumbersValid ==
    [][(IsPass /\ HasSubgrids(psize) /\ NoDuplicate(grid, psize))
        => NoDuplicate(grid', psize)]_vars

(***************************************************************************)
(* C19.  Validation and filling never overlap: the grid is written only by *)
(* the passes of main, after checkPuzzle has returned and every check      *)
(* thread has terminated and been joined; no check thread can run once the *)
(* first pass may start.                                                   *)
(***************************************************************************)
C19_FillAfterValidation ==
    /\ [][grid' # grid =>
            /\ pc = "solve" /\ IsPass
            /\ \A k \in DOMAIN threads : threads[k].st = "joined"]_vars
    /\ [](pc \in {"solve", "done"} =>
            /\ \A k \in DOMAIN threads : threads[k].st = "joined"
            /\ Cardinality(Created) = totalThreads(psize))

\* the passes have filled a cell of a 4x4 grid whose 12 threads have all
\* been joined
C19_Witness ==
    /\ pc = "solve" /\ iter >= 1 /\ psize = 4
    /\ grid # input
    /\ Cardinality({k \in DOMAIN threads : threads[k].st = "joined"}) = 12

(***************************************************************************)
(* C20.  Under a fair scheduler checkPuzzle terminates for psize >= 1:     *)
(* every run reaches the return of checkPuzzle with every thread           *)
(* terminated; a thread is joined once, after it has terminated, and stays *)
(* joined; and at the return all 2 * psize or 3 * psize threads have been  *)
(* created, have terminated and have been joined.                          *)
(***************************************************************************)
C20_Terminates ==
    /\ (psize >= 1 /\ pc \in {"create_row", "create_col", "create_sub", "flags", "join"})
          ~> (pc = "report" /\ \A k \in DOMAIN threads : Terminated(k))
    /\ [][\A k \in DOMAIN threads :
            /\ (threads[k].st # "joined" /\ threads'[k].st = "joined")
                  => (threads[k].st = "done" /\ pc = "join" /\ i = k /\ i' = k + 1)
            /\ threads[k].st = "joined" => threads'[k].st = "joined"]_vars
    /\ [](pc = "report" =>
            /\ i = totalThreads(psize)
            /\ Cardinality(Created) \in {2 * psize, 3 * psize}
            /\ Created = DOMAIN threads
            /\ \A k \in DOMAIN threads : threads[k].st = "joined")

\* checkPuzzle has returned for a 4x4 grid: 12 threads created and joined
C20_Witness ==
    /\ pc = "report" /\ psize = 4
    /\ i = 12 /\ threadIndex = 12
    /\ \A k \in 0..11 : threads[k].st = "joined"


====
